---- MODULE Spec2Model ----
(***************************************************************************)
(* A model of the error-monitoring SDK of src/src/index.ts: the            *)
(* ErrorMonitor class (start, stop, reportError and the interceptors that  *)
(* start installs) and the module-level singleton API (monitor,            *)
(* stopMonitoring, getMonitor).                                            *)
(*                                                                         *)
(* The host runtime is part of the state: which global facilities exist    *)
(* (process, window, global, the two fetch slots), what the patchable      *)
(* global slots currently hold, and which listeners are registered.        *)
(* Function values are modelled by identity: a base function and the       *)
(* stack of wrapper closures built around it, each closure named by the    *)
(* monitor that made it, the start() that made it and the hook it serves.  *)
(*                                                                         *)
(* Modelling assumptions about the host (not in the source):               *)
(*   - `console` and `console.error` exist in every host (every runtime    *)
(*     able to load the module defines them);                              *)
(*   - `process.on` and `process.removeListener` exist together;           *)
(*   - the application registers no listeners of its own, so the host's    *)
(*     default handling of an uncaught exception or unhandled rejection    *)
(*     runs exactly when no listener is registered for it (Node.js);       *)
(*   - building a report does not fail synchronously (the error argument   *)
(*     is an Error or a string and the options serialize);                 *)
(*   - the fetch slots and the listener facilities never refuse a write;   *)
(*     console.error refuses one (a TypeError, the module is strict) once  *)
(*     other code has frozen the console object.                           *)
(***************************************************************************)
EXTENDS Integers, Sequences, FiniteSets, Bags, TLC

(* ------------------------------ bounds --------------------------------- *)

\* Monitor instances ever constructed (new ErrorMonitor).
MaxMonitors == 2
\* Wrapper closures stacked in one global slot.
MaxWraps == 2
\* Reports whose POST is in flight at the same time.
MaxPending == 2
\* Reports still in flight when the application raises another failure.
MaxBacklog == 0
\* Length of a chain report -> failure log -> report -> ...
MaxDepth == 1
\* Lines of a stack trace after its first line.
MaxFrames == 3

(* --------------------------- program constants ------------------------- *)

\* httpErrorCodes default, src/src/index.ts:46
DefaultCodes == {400, 401, 403, 404, 429, 500, 502, 503, 504}

\* The first argument of the failure log, src/src/index.ts:315
FailLabel == "Error Monitor - Failed to report error:"

\* Hook names, the keys of originalHandlers.
ProcessKeys == {"uncaughtException", "unhandledRejection"}
WindowKeys == {"unhandledrejection", "error"}
ListenerKeys == ProcessKeys \cup WindowKeys

(* ------------------------------ inputs --------------------------------- *)

\* HTTP statuses a fetch may resolve with.
Statuses == {200, 404, 503}

\* Values passed to console.error: an Error object, two strings, another value.
ErrorValue == "anError"
StringValues == {"checkout failed", FailLabel}
OtherValue == "anObject"
ArgValues == {ErrorValue, "checkout failed", OtherValue}
ArgLists ==
    {<<>>} \cup {<<a>> : a \in ArgValues}
    \cup {<<"checkout failed", b>> : b \in ArgValues}
    \cup {<<OtherValue, ErrorValue>>, <<ErrorValue, ErrorValue>>}

\* What a promise rejects with, unhandled: an Error object, a string,
\* a number, nothing.  The other events carry an Error object.
ErrorReason == [kind |-> "error", message |-> "card declined"]
Reasons ==
    { ErrorReason,
      [kind |-> "string", message |-> "no credits"],
      [kind |-> "number", message |-> "402"],
      [kind |-> "undefined", message |-> "undefined"] }

\* Outcomes of the POST that delivers a report.
Transport == {"ok", "status500", "rejects"}

\* The key the application constructs its monitors with, and another key
\* a caller of issueUpdate may pass.
AppKey == "key-app"
OtherKey == "key-other"
ApiKeys == {AppKey, OtherKey}

\* The errorType argument of reportError: a classification, or left out.
Omitted == "omitted"
ErrorTypeArgs == {"uncaught", "promise", "manual", Omitted}

\* The data argument of issueUpdate: left out (the default {}) or extra
\* fields for the report.
EmptyData == [k \in {} |-> TRUE]
DataChoices == {EmptyData, [notifier |-> "discord"]}

\* Values handed to wrapFunction and wrapObject.  A function has a name,
\* "" when it is anonymous; the label argument is a string, "" when it is
\* left out (undefined and "" are both falsy at lines 335, 342 and 362).
Func(name) == [kind |-> "function", name |-> name]
Data == [kind |-> "data", name |-> ""]
Functions == {Func("calculateTotals"), Func("")}
Labels == {"checkout.totals", ""}
\* An object is a reference and the own properties found behind it.
Object(ref, props) == [ref |-> ref, props |-> props]
Cart == Object("cart", [save |-> Func("save"), retries |-> Data])
Objects ==
    { Cart,
      Object("handlers", [load |-> Func("load"), onError |-> Func("")]),
      Object("settings", [retries |-> Data]) }
ObjectNames == {"Cart", ""}

\* The property descriptor of a method the monitored decorator is applied
\* to; the method is save of the class Cart.
Descriptors == {[value |-> Func("save")], [value |-> Func("")]}

\* What a wrapped function does when it is called: it throws, it returns
\* a plain value (truthy or falsy), it returns a native promise, or it
\* returns a thenable, an object with a then method and no catch method;
\* a promise or thenable later resolves or rejects.
Behaviour(kind, value, hasThen, hasCatch, settles) ==
    [kind |-> kind, value |-> value, hasThen |-> hasThen,
     hasCatch |-> hasCatch, settles |-> settles]
Behaviours ==
    { Behaviour("throws", "anError", FALSE, FALSE, "none"),
      Behaviour("returns", "aValue", FALSE, FALSE, "none"),
      Behaviour("returns", "falsy", FALSE, FALSE, "none") }
    \cup { Behaviour("returns", "aPromise", TRUE, TRUE, s) : s \in {"resolved", "rejected"} }
    \cup { Behaviour("returns", "aThenable", TRUE, FALSE, s) : s \in {"resolved", "rejected"} }

\* Stack traces.  A line is the sequence of its tokens; a file is a path,
\* of the application, of a dependency or of the runtime.
AppFile == "/app/a.js"
LibFile == "/app/node_modules/lib/index.js"
InternalFile == "node:internal/process/task_queues"
NamedFrame(fn, file, line, col) == <<"at", fn, "(", file, ":", line, ":", col, ")">>
BareFrame(file, line, col) == <<"at", file, ":", line, ":", col>>
SummaryLine == <<"Error", ":", "x">>
NativeFrame == <<"at", "Array.map", "(", "<anonymous>", ")">>
EmptyLine == <<>>
FrameLines ==
    { NamedFrame("checkout", AppFile, "10", "5"),
      NamedFrame("libCall", LibFile, "20", "7"),
      NamedFrame("processTicks", InternalFile, "30", "3"),
      BareFrame(AppFile, "11", "5"),
      BareFrame(LibFile, "21", "7"),
      NativeFrame }
FirstLines == {SummaryLine, NamedFrame("checkout", AppFile, "10", "5")}
RECURSIVE Traces(_)
Traces(n) ==
    IF n = 0 THEN {<<>>}
    ELSE Traces(n - 1) \cup
         {Append(t, l) : t \in {u \in Traces(n - 1) : Len(u) = n - 1}, l \in FrameLines}
\* The stack of an error: absent (or the empty string), or a first line
\* followed by up to MaxFrames lines.
NoStack == <<>>
Stacks == {NoStack} \cup {<<f>> \o t : f \in FirstLines, t \in Traces(MaxFrames)}

\* The configurations a monitor is constructed with: the defaults, each
\* toggle switched off alone, all switched off, and a custom status set.
Options(c, p, f, h, codes) ==
    [enableConsoleErrors |-> c, enablePromiseRejections |-> p,
     enableFetchMonitoring |-> f, monitorHttpErrors |-> h,
     httpErrorCodes |-> codes]
DefaultOptions == Options(TRUE, TRUE, TRUE, TRUE, DefaultCodes)
OptionChoices ==
    { DefaultOptions,
      Options(FALSE, TRUE, TRUE, TRUE, DefaultCodes),
      Options(TRUE, FALSE, TRUE, TRUE, DefaultCodes),
      Options(TRUE, TRUE, FALSE, TRUE, DefaultCodes),
      Options(TRUE, TRUE, TRUE, FALSE, DefaultCodes),
      Options(FALSE, FALSE, FALSE, FALSE, DefaultCodes),
      Options(TRUE, TRUE, TRUE, TRUE, {503}) }

\* The configurations of the global monitor next to which the manual
\* interface is used: everything captured, nothing captured.
ManualOptions ==
    { DefaultOptions, Options(FALSE, FALSE, FALSE, FALSE, DefaultCodes) }

\* Host environments: which globals exist.  alias: `window` and `global`
\* name the same object, so window.fetch and global.fetch are one slot.
Host(p, w, g, wf, gf, a) ==
    [process |-> p, window |-> w, global |-> g, winFetch |-> wf,
     globFetch |-> gf, alias |-> a]
\* Node.js with a global fetch, and without one.
NodeHost == Host(TRUE, FALSE, TRUE, FALSE, TRUE, FALSE)
OldNodeHost == Host(TRUE, FALSE, TRUE, FALSE, FALSE, FALSE)
\* A browser page: window alone.
BrowserHost == Host(FALSE, TRUE, FALSE, TRUE, FALSE, FALSE)
\* A page whose bundle defines `global` as window (and a process shim), a
\* jsdom test environment, an Electron renderer: window === global.
BundledHost == Host(TRUE, TRUE, TRUE, TRUE, TRUE, TRUE)
\* A host with a page context and a separate Node context, each with its
\* own fetch (NW.js).
DualHost == Host(TRUE, TRUE, TRUE, TRUE, TRUE, FALSE)
\* A worker: neither window nor process nor global.
WorkerHost == Host(FALSE, FALSE, FALSE, FALSE, FALSE, FALSE)
Hosts == {NodeHost, OldNodeHost, BrowserHost, BundledHost, DualHost, WorkerHost}

(* --------------------------- function values --------------------------- *)

Fn(base, wraps) == [base |-> base, wraps |-> wraps]
Undefined == Fn("undefined", <<>>)
\* The functions the host ships in its three slots, and a function other
\* code may assign to a slot.
NativeConsole == Fn("console.error", <<>>)
NativeWindowFetch == Fn("window.fetch", <<>>)
NativeGlobalFetch == Fn("global.fetch", <<>>)
Foreign == Fn("foreign", <<>>)
Truthy(f) == f # Undefined

\* The closure monitor m makes in start() for hook k.  Closures that the
\* same monitor makes for the same hook in different start() calls behave
\* alike and are told apart only by the function they captured.
Closure(m, k) == [m |-> m, k |-> k]
\* The wrapper that closure c forms around the function it captured.
Wrap(f, c) == Fn(f.base, Append(f.wraps, c))
IsWrapper(f) == f.wraps # <<>>
Top(f) == f.wraps[Len(f.wraps)]
OriginalOf(f) == Fn(f.base, SubSeq(f.wraps, 1, Len(f.wraps) - 1))

EmptyMap == [k \in {} |-> TRUE]
MapSet(map, key, v) ==
    [k \in DOMAIN map \cup {key} |-> IF k = key THEN v ELSE map[k]]
Has(map, key) == key \in DOMAIN map

Range(s) == {s[i] : i \in DOMAIN s}
Without(s, x) == SelectSeq(s, LAMBDA y : y # x)

VARIABLES
    host,           \* the host environment, fixed
    globals,        \* console.error, window.fetch, global.fetch; console frozen
    listeners,      \* per event, the registered handlers in order
    mons,           \* the ErrorMonitor instances
    globalMonitor,  \* the module-level singleton, 0 for null
    pending,        \* reports whose POST has not settled
    inflight,       \* a call through fetch whose original has not settled
    obs             \* what the last operation did, as its caller saw it

vars == <<host, globals, listeners, mons, globalMonitor, pending, inflight, obs>>

MonitorIds == 1 .. MaxMonitors

(* ------------------------------ the host ------------------------------- *)

\* The slot `global.fetch` names: window.fetch itself where window and
\* global are one object.
ReadWindowFetch(g) == g.wfetch
ReadGlobalFetch(g) == IF host.alias THEN g.wfetch ELSE g.gfetch
WriteWindowFetch(g, f) == [g EXCEPT !.wfetch = f]
WriteGlobalFetch(g, f) ==
    IF host.alias THEN [g EXCEPT !.wfetch = f] ELSE [g EXCEPT !.gfetch = f]

\* A world: the part of the state start() and stop() read and write.
World == [globals |-> globals, listeners |-> listeners, mons |-> mons]

\* { ...defaults, ...options }, lines 39-48: a field of the given options
\* replaces the default of the same name, any other field is added.
Merge(defaults, given) ==
    [k \in DOMAIN defaults \cup DOMAIN given |->
        IF k \in DOMAIN given THEN given[k] ELSE defaults[k]]

\* new ErrorMonitor(apiKey, options): the constructor keeps the key and
\* merges the options over the defaults; the registry is empty and the
\* monitor inactive.
NewMonitor(apiKey, options) ==
    [made |-> TRUE, apiKey |-> apiKey, options |-> Merge(DefaultOptions, options),
     isActive |-> FALSE, originalHandlers |-> EmptyMap]
NoMonitor ==
    [made |-> FALSE, apiKey |-> "", options |-> DefaultOptions,
     isActive |-> FALSE, originalHandlers |-> EmptyMap]

\* process.on(key, c) / window.addEventListener(key, c), recorded in the
\* registry under the same key.
InstallListener(w, m, key, c) ==
    [w EXCEPT !.listeners[key] = Append(@, c),
              !.mons[m].originalHandlers = MapSet(@, key, c)]

RemoveListener(w, m, key) ==
    LET reg == w.mons[m].originalHandlers
    IN  IF Has(reg, key)
        THEN [w EXCEPT !.listeners[key] = Without(@, reg[key])]
        ELSE w

(* ------------------------------- start --------------------------------- *)

\* Lines 59-66: the uncaught-exception listener, under no toggle.
StartUncaught(w, m) ==
    IF host.process
    THEN InstallListener(w, m, "uncaughtException", Closure(m, "uncaughtException"))
    ELSE w

\* Lines 68-87: the rejection listener, on window where there is one,
\* otherwise on process.
StartRejections(w, m) ==
    IF ~w.mons[m].options.enablePromiseRejections THEN w
    ELSE IF host.window
    THEN InstallListener(w, m, "unhandledrejection", Closure(m, "unhandledrejection"))
    ELSE IF host.process
    THEN InstallListener(w, m, "unhandledRejection", Closure(m, "unhandledRejection"))
    ELSE w

\* A console hook installed whatever enableConsoleErrors says.
StartConsoleUngated(w, m) ==
    LET originalError == w.globals.console
    IN  [w EXCEPT !.globals.console = Wrap(originalError, Closure(m, "console.error")),
                  !.mons[m].originalHandlers = MapSet(@, "console.error", originalError)]

\* Lines 89-107: console.error is replaced by a wrapper of its value.
StartConsole(w, m) ==
    IF ~w.mons[m].options.enableConsoleErrors THEN w
    ELSE LET originalError == w.globals.console
         IN  [w EXCEPT !.globals.console = Wrap(originalError, Closure(m, "console.error")),
                       !.mons[m].originalHandlers = MapSet(@, "console.error", originalError)]

\* Lines 109-117: the window error listener, under no toggle.
StartWindowError(w, m) ==
    IF host.window
    THEN InstallListener(w, m, "error", Closure(m, "error"))
    ELSE w

\* Lines 119-161: window.fetch is replaced by a wrapper of its value.
StartWindowFetch(w, m) ==
    IF /\ w.mons[m].options.enableFetchMonitoring
       /\ host.window
       /\ Truthy(ReadWindowFetch(w.globals))
    THEN LET originalFetch == ReadWindowFetch(w.globals)
         IN  [w EXCEPT !.globals = WriteWindowFetch(@, Wrap(originalFetch, Closure(m, "fetch"))),
                       !.mons[m].originalHandlers = MapSet(@, "fetch", originalFetch)]
    ELSE w

\* Lines 163-194: global.fetch is replaced by a wrapper of its value.
StartGlobalFetch(w, m) ==
    IF /\ w.mons[m].options.enableFetchMonitoring
       /\ host.global
       /\ Truthy(ReadGlobalFetch(w.globals))
    THEN LET originalFetch == ReadGlobalFetch(w.globals)
         IN  [w EXCEPT !.globals = WriteGlobalFetch(@, Wrap(originalFetch, Closure(m, "global.fetch"))),
                       !.mons[m].originalHandlers = MapSet(@, "global.fetch", originalFetch)]
    ELSE w

\* Line 92: the assignment to console.error throws when the console
\* object is frozen, and start() throws with it.
StartThrows(w, m) ==
    w.mons[m].options.enableConsoleErrors /\ w.globals.frozen

\* Lines 59-194, the body of start() past its guard.  Nothing catches a
\* throw of line 92: start() ends there, with what it did before.
InstallHooks(w, m) ==
    LET w0 == [w EXCEPT !.mons[m].isActive = TRUE]
        w1 == StartUncaught(w0, m)
        w2 == StartRejections(w1, m)
        w3 == StartConsole(w2, m)
        w4 == StartWindowError(w3, m)
        w5 == StartWindowFetch(w4, m)
    IN  IF StartThrows(w2, m) THEN w2 ELSE StartGlobalFetch(w5, m)

\* start() without its guard on isActive.
StartOpUnguarded(w, m) == InstallHooks(w, m)

\* ErrorMonitor.start, lines 54-195.
StartOp(w, m) == IF w.mons[m].isActive THEN w ELSE InstallHooks(w, m)

(* -------------------------------- stop --------------------------------- *)

\* Lines 205-212.
StopProcess(w, m) ==
    IF host.process
    THEN RemoveListener(RemoveListener(w, m, "uncaughtException"), m, "unhandledRejection")
    ELSE w

\* Lines 214-220.
StopWindow(w, m) ==
    IF host.window
    THEN RemoveListener(RemoveListener(w, m, "unhandledrejection"), m, "error")
    ELSE w

\* this.originalHandlers.get(key), tested for truthiness.
Original(w, m, key) ==
    IF Has(w.mons[m].originalHandlers, key)
    THEN w.mons[m].originalHandlers[key]
    ELSE Undefined

\* Lines 222-226.
StopConsole(w, m) ==
    LET originalError == Original(w, m, "console.error")
    IN  IF Truthy(originalError)
        THEN [w EXCEPT !.globals.console = originalError]
        ELSE w

\* Lines 228-232.
StopWindowFetch(w, m) ==
    LET originalFetch == Original(w, m, "fetch")
    IN  IF Truthy(originalFetch) /\ host.window
        THEN [w EXCEPT !.globals = WriteWindowFetch(@, originalFetch)]
        ELSE w

\* Lines 234-237.
StopGlobalFetch(w, m) ==
    LET originalGlobalFetch == Original(w, m, "global.fetch")
    IN  IF Truthy(originalGlobalFetch) /\ host.global
        THEN [w EXCEPT !.globals = WriteGlobalFetch(@, originalGlobalFetch)]
        ELSE w

\* Line 225: the assignment to console.error throws when the console
\* object is frozen, and stop() throws with it.
StopThrows(w, m) ==
    Truthy(Original(w, m, "console.error")) /\ w.globals.frozen

\* Lines 203-239, the body of stop() past its guard.  Nothing catches a
\* throw of line 225: stop() ends there, with what it did before.
RemoveHooks(w, m) ==
    LET w0 == [w EXCEPT !.mons[m].isActive = FALSE]
        w1 == StopProcess(w0, m)
        w2 == StopWindow(w1, m)
        w3 == StopConsole(w2, m)
        w4 == StopWindowFetch(w3, m)
        w5 == StopGlobalFetch(w4, m)
    IN  IF StopThrows(w2, m) THEN w2
        ELSE [w5 EXCEPT !.mons[m].originalHandlers = EmptyMap]

\* stop() without its guard on isActive and keeping its registry.
StopOpUnguarded(w, m) ==
    LET w0 == [w EXCEPT !.mons[m].isActive = FALSE]
    IN  StopGlobalFetch(StopWindowFetch(StopConsole(StopWindow(StopProcess(w0, m), m), m), m), m)

\* ErrorMonitor.stop, lines 200-240.
StopOp(w, m) == IF ~w.mons[m].isActive THEN w ELSE RemoveHooks(w, m)

(* ------------------------------ reporting ------------------------------ *)

\* What an intercepted call does, in order: calls of the base function and
\* calls of reportError(event, error, etype) made by closure `by`.
CallEffect(base, args) ==
    [what |-> "call", fn |-> base, args |-> args, m |-> 0, event |-> "",
     etype |-> "", by |-> Closure(0, "")]
ReportEffect(c, event, etype) ==
    [what |-> "report", fn |-> "", args |-> <<>>, m |-> c.m, event |-> event,
     etype |-> etype, by |-> c]
Reports(effects) == SelectSeq(effects, LAMBDA e : e.what = "report")

\* reportError up to its await (lines 250-308): the report is built and
\* its POST issued.  A report in flight keeps the monitor that sends it and
\* how many failure logs lie between it and an intercepted error.
\* Interceptors that wait for the POST of each report before they go on.
IssueAwaited(pend, reports, depth) == pend

RECURSIVE Issue(_, _, _)
Issue(pend, reports, depth) ==
    IF reports = <<>> THEN pend
    ELSE Issue(pend (+) SetToBag({[m |-> Head(reports).m, depth |-> depth]}),
               Tail(reports), depth)

\* Lines 301-312: the try block throws when the awaited POST rejects and
\* when its response is not ok.
TryThrows(transport) == transport # "ok"

\* A catch clause that lets the throw of line 311 escape.
CatchSwallowsRejectionsOnly(transport) == transport = "rejects"

\* Lines 314-317: the catch clause takes every throw and does not rethrow.
CatchSwallows(transport) == TRUE

\* The state in which the promise of reportError settles.
ReportPromise(transport) ==
    IF TryThrows(transport) /\ ~CatchSwallows(transport)
    THEN "rejected"
    ELSE "resolved"

(* ---------------------------- interceptors ----------------------------- *)

IsError(a) == a = ErrorValue
IsString(a) == a \in StringValues

\* A wrapper that takes any string first argument for a label.
ConsoleReportAnyLabel(c, args) ==
    IF Len(args) > 0
    THEN IF IsError(args[1])
         THEN <<ReportEffect(c, "console_error", "manual")>>
         ELSE IF IsString(args[1])
         THEN <<ReportEffect(c, args[1], "manual")>>
         ELSE <<>>
    ELSE <<>>

\* Lines 96-104: what the console.error wrapper reports.
ConsoleReport(c, args) ==
    IF Len(args) > 0
    THEN IF IsError(args[1])
         THEN <<ReportEffect(c, "console_error", "manual")>>
         ELSE IF IsString(args[1]) /\ Len(args) > 1 /\ IsError(args[2])
         THEN <<ReportEffect(c, args[1], "manual")>>
         ELSE <<>>
    ELSE <<>>

\* A wrapper that reports before it calls the function it captured.
ConsoleWrapperReportsFirst(c, inner, args) == ConsoleReport(c, args) \o inner

\* Lines 92-105: the wrapper calls the function it captured, with the
\* arguments it got, then reports.
ConsoleWrapper(c, inner, args) == inner \o ConsoleReport(c, args)

\* A call of the function value f with args.
RECURSIVE ConsoleEffects(_, _)
ConsoleEffects(f, args) ==
    IF IsWrapper(f)
    THEN ConsoleWrapper(Top(f), ConsoleEffects(OriginalOf(f), args), args)
    ELSE <<CallEffect(f.base, args)>>

\* How the original fetch settles: with a response of some status, or
\* rejecting with a reason.
FetchOutcomes ==
    {[kind |-> "resolved", status |-> s, value |-> "theResponse"] : s \in Statuses}
    \cup {[kind |-> "rejected", status |-> 0, value |-> "theReason"]}

FetchEvent(status) ==
    CASE status = 200 -> "fetch_200"
      [] status = 404 -> "fetch_404"
      [] status = 503 -> "fetch_503"

\* Lines 129-130 and 172-173.
StatusMonitored(ms, c, status) ==
    /\ ms[c.m].options.monitorHttpErrors
    /\ status \in ms[c.m].options.httpErrorCodes

\* Lines 125-157 and 169-190: what a fetch wrapper reports once the
\* function it captured has settled with `got`.
FetchReport(ms, c, got) ==
    IF got.kind = "resolved"
    THEN IF StatusMonitored(ms, c, got.status)
         THEN <<ReportEffect(c, FetchEvent(got.status), "manual")>>
         ELSE <<>>
    ELSE <<ReportEffect(c, "fetch_network_error", "manual")>>

\* Lines 151 and 156, 185 and 189: the wrapper returns the response it
\* got, or throws the reason it caught.
FetchPass(c, got) == got

\* A call of the fetch function value f whose base settles with `outcome`:
\* the reports made on the way out and what the caller receives.
RECURSIVE FetchRun(_, _, _)
FetchRun(ms, f, outcome) ==
    IF IsWrapper(f)
    THEN LET inner == FetchRun(ms, OriginalOf(f), outcome)
         IN  [reports |-> inner.reports \o FetchReport(ms, Top(f), inner.got),
              got |-> FetchPass(Top(f), inner.got)]
    ELSE [reports |-> <<>>, got |-> outcome]

\* Lines 61-63, 72-75, 80-83, 111-114: the listeners.
ListenerEvent(key) ==
    CASE key = "uncaughtException" -> "uncaught_exception"
      [] key = "unhandledRejection" -> "unhandled_promise_rejection"
      [] key = "unhandledrejection" -> "unhandled_promise_rejection"
      [] key = "error" -> "global_error"
\* Listeners that classify a window error event as manual.
ListenerTypeErrorManual(key) ==
    CASE key = "uncaughtException" -> "uncaught"
      [] key = "unhandledRejection" -> "promise"
      [] key = "unhandledrejection" -> "promise"
      [] key = "error" -> "manual"
ListenerType(key) ==
    CASE key = "uncaughtException" -> "uncaught"
      [] key = "unhandledRejection" -> "promise"
      [] key = "unhandledrejection" -> "promise"
      [] key = "error" -> "uncaught"
ListenerReport(c) == <<ReportEffect(c, ListenerEvent(c.k), ListenerType(c.k))>>

\* String(value), and new Error(text).
StringOf(value) ==
    IF value.kind = "error" THEN "Error: " \o value.message ELSE value.message
NewError(text) == [kind |-> "error", message |-> text]

\* Lines 62, 73, 81 and 112: the error a listener hands to reportError.
\* The rejection listeners make an Error of a reason that is none.
ListenerError(key, payload) ==
    IF key \in {"unhandledRejection", "unhandledrejection"}
    THEN IF payload.kind = "error" THEN payload ELSE NewError(StringOf(payload))
    ELSE payload

\* Lines 251 and 288: the error text of the report.
ErrorText(err) ==
    LET errorObj == IF err.kind = "error" THEN err ELSE NewError(StringOf(err))
    IN  errorObj.message

\* The host emits event `key`: every registered listener runs, in order.
RECURSIVE Emit(_)
Emit(ls) == IF ls = <<>> THEN <<>> ELSE ListenerReport(Head(ls)) \o Emit(Tail(ls))

\* Whether the host's own handling of the failure still runs.  Node.js
\* skips its default (print and exit, or throw) when a listener of the
\* event is registered (lines 64 and 84); a window event keeps its default
\* unless a listener calls preventDefault, which none does (lines 72-75
\* and 111-114).
HostDefaultRuns(key, ls) == IF key \in ProcessKeys THEN ls = <<>> ELSE TRUE

(* ------------------------- stack-frame extraction ---------------------- *)

\* Line 252: (errorObj.stack || "").split("\n"); the empty string splits
\* into one empty line.
StackLines(stack) == IF stack = NoStack THEN <<EmptyLine>> ELSE stack

Digits == {"10", "11", "20", "21", "30", "5", "7", "3"}

\* Line 265: at <fn> (<file>:<line>:<col>)
MatchNamed(l) ==
    /\ Len(l) = 9
    /\ l[1] = "at" /\ l[3] = "(" /\ l[5] = ":" /\ l[7] = ":" /\ l[9] = ")"
    /\ l[6] \in Digits /\ l[8] \in Digits

\* Line 267: at <file>:<line>:<col>
MatchBare(l) ==
    /\ Len(l) = 6
    /\ l[1] = "at" /\ l[3] = ":" /\ l[5] = ":"
    /\ l[4] \in Digits /\ l[6] \in Digits

\* fileName.includes(marker), lines 281.
Includes(file, marker) ==
    \/ file = LibFile /\ marker = "node_modules"
    \/ file = InternalFile /\ marker = "internal/"

\* Lines 255-258: the four variables before the loop.
Unset == "undefined"
NoFrame == [function |-> Unset, file |-> Unset, line |-> Unset, col |-> Unset]

\* Lines 265-278: what one line assigns to the four variables.
Assign(acc, l) ==
    IF MatchNamed(l)
    THEN [function |-> l[2], file |-> l[4], line |-> l[6], col |-> l[8]]
    ELSE IF MatchBare(l)
    THEN [acc EXCEPT !.file = l[2], !.line = l[4], !.col = l[6]]
    ELSE acc

\* Line 281: the test that ends the loop.
Meaningful(acc) ==
    /\ acc.file # Unset /\ acc.file # ""
    /\ ~Includes(acc.file, "node_modules")
    /\ ~Includes(acc.file, "internal/")

\* Lines 261-284: the loop from line i on.
RECURSIVE Scan(_, _, _)
Scan(lines, i, acc) ==
    IF i > Len(lines) THEN acc
    ELSE LET next == Assign(acc, lines[i])
         IN  IF Meaningful(next) THEN next ELSE Scan(lines, i + 1, next)

\* A scan that does not skip the first line.
ExtractFrameFromFirstLine(lines) == Scan(lines, 1, NoFrame)

\* Lines 255-284: the scan starts at the second line.
ExtractFrame(lines) == Scan(lines, 2, NoFrame)

(* --------------------------- manual reporting -------------------------- *)

\* Line 248: the errorType parameter defaults to 'manual'.
ErrorTypeParam(arg) == IF arg = Omitted THEN "manual" ELSE arg

\* Lines 286-308: what the POST of a report carries of the monitor that
\* sends it.
Request(mon, event, etype) ==
    [auth |-> mon.apiKey, data |-> mon.options, event |-> event, errorType |-> etype]

\* a || b on strings.
OrElse(a, b) == IF a # "" THEN a ELSE b

\* Lines 323-350: the function wrapFunction returns closes over the
\* monitor, fn and functionName, and is given the name of fn.
WrapFunction(m, fn, functionName) ==
    [monitor |-> m, fn |-> fn, functionName |-> functionName, name |-> fn.name]

\* A wrapObject that leaves obj alone and returns a wrapped copy of it.
WrapObjectCopy(m, obj, objectName) ==
    Object(obj.ref \o " (copy)",
           [prop \in DOMAIN obj.props |->
               IF obj.props[prop].kind = "function"
               THEN WrapFunction(m, obj.props[prop],
                                 OrElse(objectName, "Object") \o "." \o prop)
               ELSE obj.props[prop]])

\* Lines 355-370: every own property holding a function is replaced by
\* its wrapFunction under the label <objectName or Object>.<prop>; the
\* object itself is returned.
WrapObject(m, obj, objectName) ==
    Object(obj.ref,
           [prop \in DOMAIN obj.props |->
               IF obj.props[prop].kind = "function"
               THEN WrapFunction(m, obj.props[prop],
                                 OrElse(objectName, "Object") \o "." \o prop)
               ELSE obj.props[prop]])

\* The wrapped functions the application can hold of monitor m.
WrappedFunctions(m) ==
    {WrapFunction(m, fn, label) : fn \in Functions, label \in Labels}
    \cup {WrapObject(m, Cart, name).props.save : name \in ObjectNames}

\* Lines 335 and 342: the event a wrapped function reports under.
WrappedEvent(wf, tag) == OrElse(wf.functionName, OrElse(wf.fn.name, tag))
WrappedReport(wf, tag) ==
    <<ReportEffect(Closure(wf.monitor, "wrapFunction"), WrappedEvent(wf, tag),
                   ErrorTypeParam("manual"))>>

\* What a promise-like settles with: the value it resolves to or the
\* reason it rejects with.
SettledWith(b) ==
    CASE b.settles = "resolved" -> b.value \o " result"
      [] b.settles = "rejected" -> b.value \o " reason"
      [] OTHER -> ""

\* What the caller of a wrapped function gets: a throw or a returned
\* value, how a returned promise settles and with what, and the reports
\* made.
Result(threw, value, settles, with, reports) ==
    [threw |-> threw, value |-> value, settles |-> settles, with |-> with,
     reports |-> reports]

\* Lines 341-344: the catch clause reports and rethrows what it caught.
WrappedCatch(wf, error) ==
    Result(TRUE, error, "none", "", WrappedReport(wf, "anonymous_function"))

\* Lines 333-338: result.catch(handler) on a returned promise-like.  With
\* a catch method the caller gets the promise catch returns, which settles
\* as the original does once the handler has reported and rethrown;
\* without one, calling result.catch throws a TypeError inside the try
\* block.
WrappedThen(wf, b) ==
    IF b.hasCatch
    THEN Result(FALSE, b.value \o ".catch(handler)", b.settles, SettledWith(b),
                IF b.settles = "rejected"
                THEN WrappedReport(wf, "anonymous_async_function")
                ELSE <<>>)
    ELSE WrappedCatch(wf, "TypeError: result.catch is not a function")

\* A wrapper whose catch clause swallows the error it reported.
WrappedCallSwallows(wf, b) ==
    IF b.kind = "throws"
    THEN Result(FALSE, "undefined", "none", "", WrappedReport(wf, "anonymous_function"))
    ELSE IF b.value # "falsy" /\ b.hasThen
    THEN WrappedThen(wf, b)
    ELSE Result(FALSE, b.value, b.settles, SettledWith(b), <<>>)

\* Lines 328-345: a call of the wrapped function wf whose fn behaves as b.
WrappedCall(wf, b) ==
    IF b.kind = "throws"
    THEN WrappedCatch(wf, b.value)
    ELSE IF b.value # "falsy" /\ b.hasThen
    THEN WrappedThen(wf, b)
    ELSE Result(FALSE, b.value, b.settles, SettledWith(b), <<>>)

\* The console.warn of line 432.
NotInitialized == "Error monitor not initialized. Call monitor() first."

\* A decorator that wraps through a monitor of its own when there is no
\* global one.
MonitoredOpOwnMonitor(gm, target, propertyName, descriptor) ==
    [warned |-> <<>>,
     descriptor |-> [descriptor EXCEPT !.value =
                        WrapFunction(gm, @, target.constructor \o "." \o propertyName)]]

\* Lines 430-439: monitored(target, propertyName, descriptor).  With no
\* global monitor it warns and returns the descriptor as it got it;
\* otherwise it replaces the method by its wrapFunction of the global
\* monitor under <class name>.<method name>.
MonitoredOp(gm, target, propertyName, descriptor) ==
    IF gm = 0
    THEN [warned |-> <<NotInitialized>>, descriptor |-> descriptor]
    ELSE [warned |-> <<>>,
          descriptor |-> [descriptor EXCEPT !.value =
                             WrapFunction(gm, @, target.constructor \o "." \o propertyName)]]

\* issueUpdate that never looks at the global monitor.
IssueUpdateOpThrowaway(ms, gm, apiKey, data) ==
    [m |-> 0, monitor |-> NewMonitor(apiKey, data)]

\* Lines 418-424: the monitor issueUpdate reports through, the global one
\* when it is set, otherwise a new one made of the caller's key with the
\* caller's data for options; m is 0 for that temporary monitor.
IssueUpdateOp(ms, gm, apiKey, data) ==
    IF gm # 0
    THEN [m |-> gm, monitor |-> ms[gm]]
    ELSE [m |-> 0, monitor |-> NewMonitor(apiKey, data)]

(* ------------------------------- state --------------------------------- *)

NoCall == [fn |-> Undefined, via |-> "none"]

Init ==
    /\ host \in Hosts
    /\ globals = [console |-> NativeConsole,
                  wfetch |-> IF host.winFetch THEN NativeWindowFetch ELSE Undefined,
                  gfetch |-> IF host.globFetch /\ ~host.alias
                             THEN NativeGlobalFetch ELSE Undefined,
                  frozen |-> FALSE]
    /\ listeners = [k \in ListenerKeys |-> <<>>]
    /\ mons = [m \in MonitorIds |-> NoMonitor]
    /\ globalMonitor = 0
    /\ pending = EmptyBag
    /\ inflight = NoCall
    /\ obs = [op |-> "init"]

Made == {m \in MonitorIds : mons[m].made}
Free == MonitorIds \ Made
NextId == CHOOSE m \in Free : \A n \in Free : m <= n

SetWorld(w) ==
    /\ globals' = w.globals
    /\ listeners' = w.listeners
    /\ mons' = w.mons

\* start() stacks wrappers on slots that hold fewer than MaxWraps of them
\* (it stacks two on an aliased fetch slot).
Depth(f) == Len(f.wraps)
CanWrap ==
    /\ Depth(globals.console) < MaxWraps
    /\ Depth(globals.wfetch) < MaxWraps
    /\ Depth(globals.gfetch) < MaxWraps

\* The application raises its next failure once the reports of earlier
\* ones have settled, up to a backlog, and no fetch call is in flight.
CanIssue(reports) ==
    /\ BagCardinality(pending) <= MaxBacklog
    /\ BagCardinality(pending) + Len(reports) <= MaxPending
Idle == BagCardinality(pending) <= MaxBacklog /\ inflight = NoCall

(* ----------------------- operations on an instance --------------------- *)

\* new ErrorMonitor(apiKey, options), lines 37-49.
Construct(options) ==
    /\ Free # {}
    /\ mons' = [mons EXCEPT ![NextId] = NewMonitor(AppKey, options)]
    /\ obs' = [op |-> "construct", m |-> NextId]
    /\ UNCHANGED <<host, globals, listeners, globalMonitor, pending, inflight>>

\* instance.start()
Start(m) ==
    /\ mons[m].made
    /\ mons[m].isActive \/ CanWrap
    /\ SetWorld(StartOp(World, m))
    /\ obs' = [op |-> "start", m |-> m, wasActive |-> mons[m].isActive,
               threw |-> ~mons[m].isActive /\ StartThrows(World, m),
               again |-> \/ obs.op = "stop" /\ obs.m = m /\ obs.wasActive
                         \/ obs.op = "foreignAssign" /\ obs.afterStopOf = m,
               pre |-> [globals |-> globals, listeners |-> listeners]]
    /\ UNCHANGED <<host, globalMonitor, pending, inflight>>

\* instance.stop()
Stop(m) ==
    /\ mons[m].made
    /\ SetWorld(StopOp(World, m))
    /\ obs' = [op |-> "stop", m |-> m, wasActive |-> mons[m].isActive,
               threw |-> mons[m].isActive /\ StopThrows(World, m),
               afterForeign |-> obs.op = "foreignAssign" /\ obs.afterStopOf = m]
    /\ UNCHANGED <<host, globalMonitor, pending, inflight>>

\* instance.reportError(event, err, errorType), called by the application.
ReportErrorCall(m, etype) ==
    LET reports == <<ReportEffect(Closure(m, "reportError"), "manual_event",
                                  ErrorTypeParam(etype))>>
    IN  /\ mons[m].made
        /\ Idle
        /\ CanIssue(reports)
        /\ pending' = Issue(pending, reports, 0)
        /\ obs' = [op |-> "reportError", m |-> m, errorType |-> etype,
                   reports |-> reports, raised |-> FALSE]
        /\ UNCHANGED <<host, globals, listeners, mons, globalMonitor, inflight>>

\* The POST of report r settles (lines 301-317).  On a failure the catch
\* clause logs through whatever console.error is at that time.
ReportSettle(r, transport) ==
    LET log == IF TryThrows(transport) /\ CatchSwallows(transport)
               THEN ConsoleEffects(globals.console, <<FailLabel, ErrorValue>>)
               ELSE <<>>
        rest == pending (-) SetToBag({r})
    IN  /\ BagIn(r, pending)
        /\ Reports(log) # <<>> => r.depth < MaxDepth
        /\ BagCardinality(rest) + Len(Reports(log)) <= MaxPending
        /\ pending' = Issue(rest, Reports(log), r.depth + 1)
        /\ obs' = [op |-> "reportSettled", m |-> r.m, depth |-> r.depth,
                   transport |-> transport, promise |-> ReportPromise(transport),
                   log |-> log, reports |-> Reports(log)]
        /\ UNCHANGED <<host, globals, listeners, mons, globalMonitor, inflight>>

(* ------------------------------ singleton ------------------------------ *)

\* Whether the stop() of the global monitor throws (lines 383 and 397).
GlobalStopThrows(w, gm) ==
    gm # 0 /\ w.mons[gm].isActive /\ StopThrows(w, gm)

\* monitor(apiKey, options), lines 381-390.  A throw of stop() ends it
\* before the new monitor is made; a throw of start() after the new
\* monitor was assigned.
MonitorOp(w, gm, n, options) ==
    LET w1 == IF gm # 0 THEN StopOp(w, gm) ELSE w
        w2 == [w1 EXCEPT !.mons[n] = NewMonitor(AppKey, options)]
    IN  IF GlobalStopThrows(w, gm) THEN w1 ELSE StartOp(w2, n)

MonitorCall(options) ==
    /\ Free # {}
    /\ CanWrap
    /\ SetWorld(MonitorOp(World, globalMonitor, NextId, options))
    /\ globalMonitor' = IF GlobalStopThrows(World, globalMonitor)
                        THEN globalMonitor ELSE NextId
    /\ obs' = [op |-> "monitor", m |-> globalMonitor', previous |-> globalMonitor]
    /\ UNCHANGED <<host, pending, inflight>>

\* stopMonitoring(), lines 395-400.
StopMonitoringOp(w, gm) == IF gm # 0 THEN StopOp(w, gm) ELSE w

StopMonitoring ==
    /\ SetWorld(StopMonitoringOp(World, globalMonitor))
    /\ globalMonitor' = IF globalMonitor # 0 /\ ~GlobalStopThrows(World, globalMonitor)
                        THEN 0 ELSE globalMonitor
    /\ obs' = [op |-> "stopMonitoring", m |-> globalMonitor]
    /\ UNCHANGED <<host, pending, inflight>>

\* getMonitor(), lines 405-407.
GetMonitor == globalMonitor

(* ------------------------------- the host ------------------------------ *)

\* The host emits an uncaught exception, an unhandled rejection (on
\* process or on window) or a window error event.
HostEmits(key, payload) ==
    LET reports == Emit(listeners[key])
    IN  /\ IF key \in ProcessKeys THEN host.process ELSE host.window
        /\ Idle
        /\ CanIssue(reports)
        /\ pending' = Issue(pending, reports, 0)
        /\ obs' = [op |-> "emit", key |-> key, payload |-> payload,
                   reports |-> reports,
                   errors |-> [i \in DOMAIN reports |->
                                 ErrorText(ListenerError(key, payload))],
                   defaultRuns |-> HostDefaultRuns(key, listeners[key])]
        /\ UNCHANGED <<host, globals, listeners, mons, globalMonitor, inflight>>

\* The application calls console.error(...args).
CallConsoleError(args) ==
    LET effects == ConsoleEffects(globals.console, args)
    IN  /\ Idle
        /\ CanIssue(Reports(effects))
        /\ pending' = Issue(pending, Reports(effects), 0)
        /\ obs' = [op |-> "console.error", fn |-> globals.console, args |-> args,
                   effects |-> effects, reports |-> Reports(effects)]
        /\ UNCHANGED <<host, globals, listeners, mons, globalMonitor, inflight>>

\* The application calls window.fetch(...) or global.fetch(...): the call
\* runs the function the slot holds then, up to the await of the original.
FetchCall(via) ==
    LET f == IF via = "window" THEN ReadWindowFetch(globals) ELSE ReadGlobalFetch(globals)
    IN  /\ Idle
        /\ IF via = "window" THEN host.window ELSE host.global
        /\ Truthy(f)
        /\ inflight' = [fn |-> f, via |-> via]
        /\ obs' = [op |-> "fetchCalled", fn |-> f, via |-> via]
        /\ UNCHANGED <<host, globals, listeners, mons, globalMonitor, pending>>

\* The original fetch of the call in flight settles.
FetchSettle(outcome) ==
    LET run == FetchRun(mons, inflight.fn, outcome)
    IN  /\ inflight # NoCall
        /\ CanIssue(run.reports)
        /\ pending' = Issue(pending, run.reports, 0)
        /\ inflight' = NoCall
        /\ obs' = [op |-> "fetch", fn |-> inflight.fn, via |-> inflight.via,
                   outcome |-> outcome, got |-> run.got, reports |-> run.reports]
        /\ UNCHANGED <<host, globals, listeners, mons, globalMonitor>>

\* Other code assigns its own function to console.error.
ForeignAssign ==
    /\ ~globals.frozen
    /\ globals.console # Foreign
    /\ globals' = [globals EXCEPT !.console = Foreign]
    /\ obs' = [op |-> "foreignAssign",
               afterStopOf |-> IF obs.op = "stop" /\ obs.wasActive THEN obs.m ELSE 0]
    /\ UNCHANGED <<host, listeners, mons, globalMonitor, pending, inflight>>

\* Other code freezes the console object (Object.freeze(console), a
\* hardened runtime): from then on console.error cannot be assigned.
Freeze ==
    /\ ~globals.frozen
    /\ globals' = [globals EXCEPT !.frozen = TRUE]
    /\ obs' = [op |-> "freeze"]
    /\ UNCHANGED <<host, listeners, mons, globalMonitor, pending, inflight>>

\* The application calls a function it got from wrapFunction or wrapObject
\* of monitor m; a promise the call returns settles.
CallWrapped(m, wf, b) ==
    LET result == WrappedCall(wf, b)
    IN  /\ mons[m].made
        /\ Idle
        /\ CanIssue(result.reports)
        /\ pending' = Issue(pending, result.reports, 0)
        /\ obs' = [op |-> "wrappedCall", m |-> m, wf |-> wf, behaviour |-> b,
                   result |-> result, reports |-> result.reports]
        /\ UNCHANGED <<host, globals, listeners, mons, globalMonitor, inflight>>

\* monitor m.wrapObject(obj, objectName), lines 355-370: the application
\* gets the returned reference; what it finds behind its own reference to
\* obj afterwards is `obj` of the result when the references are the same.
WrapObjectCall(m, obj, objectName) ==
    /\ mons[m].made
    /\ obs' = [op |-> "wrapObject", m |-> m, obj |-> obj, objectName |-> objectName,
               returned |-> WrapObject(m, obj, objectName)]
    /\ UNCHANGED <<host, globals, listeners, mons, globalMonitor, pending, inflight>>

\* A class is declared with a method under @monitored, lines 430-439.
MonitoredCall(target, propertyName, descriptor) ==
    LET done == MonitoredOp(globalMonitor, target, propertyName, descriptor)
    IN  /\ obs' = [op |-> "monitored", globalMonitor |-> globalMonitor,
                   descriptor |-> descriptor, warned |-> done.warned,
                   returned |-> done.descriptor, threw |-> FALSE, reports |-> <<>>]
        /\ UNCHANGED <<host, globals, listeners, mons, globalMonitor, pending, inflight>>

\* issueUpdate(apiKey, event, err, data), lines 412-425.
IssueUpdateCall(apiKey, data) ==
    LET via == IssueUpdateOp(mons, globalMonitor, apiKey, data)
        reports == <<ReportEffect(Closure(via.m, "issueUpdate"), "manual_event",
                                  ErrorTypeParam("manual"))>>
    IN  /\ Idle
        /\ CanIssue(reports)
        /\ pending' = Issue(pending, reports, 0)
        /\ obs' = [op |-> "issueUpdate", apiKey |-> apiKey, data |-> data,
                   m |-> via.m, monitor |-> via.monitor,
                   request |-> Request(via.monitor, "manual_event", "manual"),
                   reports |-> reports]
        /\ UNCHANGED <<host, globals, listeners, mons, globalMonitor, inflight>>

\* The manual reporting interface.
ManualStep ==
    \/ \E m \in MonitorIds : \E wf \in WrappedFunctions(m), b \in Behaviours :
          CallWrapped(m, wf, b)
    \/ \E apiKey \in ApiKeys, data \in DataChoices : IssueUpdateCall(apiKey, data)

\* What the host and the application do while monitoring runs.
HostStep ==
    \/ \E key \in ListenerKeys :
          \E payload \in (IF key \in {"unhandledRejection", "unhandledrejection"}
                          THEN Reasons ELSE {ErrorReason}) :
             HostEmits(key, payload)
    \/ \E args \in ArgLists : CallConsoleError(args)
    \/ \E via \in {"window", "global"} : FetchCall(via)
    \/ \E outcome \in FetchOutcomes : FetchSettle(outcome)
    \/ \E m \in MonitorIds, etype \in ErrorTypeArgs : ReportErrorCall(m, etype)
    \/ \E r \in BagToSet(pending), t \in Transport : ReportSettle(r, t)

\* The life cycle of monitors: instances the application constructs, starts
\* and stops itself, the module-level singleton, and other code that
\* patches console.error.
NextLifecycle ==
    \/ \E options \in OptionChoices : Construct(options)
    \/ \E m \in MonitorIds : Start(m)
    \/ \E m \in MonitorIds : Stop(m)
    \/ \E options \in OptionChoices : MonitorCall(options)
    \/ StopMonitoring
    \/ ForeignAssign

SpecLifecycle == Init /\ [][NextLifecycle]_vars

\* Instances started and stopped by the application in a host whose
\* console may get frozen.
NextInstall ==
    \/ \E options \in OptionChoices : Construct(options)
    \/ \E m \in MonitorIds : Start(m)
    \/ \E m \in MonitorIds : Stop(m)
    \/ Freeze

SpecInstall == Init /\ [][NextInstall]_vars

\* The singleton API, with start() and stop() called on the instances that
\* monitor() and getMonitor() returned.
NextSingleton ==
    \/ \E options \in OptionChoices : MonitorCall(options)
    \/ StopMonitoring
    \/ \E m \in MonitorIds : Start(m)
    \/ \E m \in MonitorIds : Stop(m)

SpecSingleton == Init /\ [][NextSingleton]_vars

\* The program used as documented, through monitor() and stopMonitoring(),
\* with the failures the host and the application raise meanwhile.
NextMonitoring ==
    \/ \E options \in OptionChoices : MonitorCall(options)
    \/ StopMonitoring
    \/ ForeignAssign
    \/ HostStep

SpecMonitoring == Init /\ [][NextMonitoring]_vars

\* reportError on an error with the given stack, lines 251-297: the frame
\* the report carries.
ReportFrame(stack) ==
    /\ obs.op = "error"
    /\ obs.stack = stack
    /\ obs' = [op |-> "extract", stack |-> stack,
               frame |-> ExtractFrame(StackLines(stack))]
    /\ UNCHANGED <<host, globals, listeners, mons, globalMonitor, pending, inflight>>

NextStack == \E stack \in Stacks : ReportFrame(stack)

\* The application holds an error with some stack; nothing is monitored.
InitStack ==
    /\ host \in Hosts
    /\ globals = [console |-> NativeConsole,
                  wfetch |-> IF host.winFetch THEN NativeWindowFetch ELSE Undefined,
                  gfetch |-> IF host.globFetch /\ ~host.alias
                             THEN NativeGlobalFetch ELSE Undefined,
                  frozen |-> FALSE]
    /\ listeners = [k \in ListenerKeys |-> <<>>]
    /\ mons = [m \in MonitorIds |-> NoMonitor]
    /\ globalMonitor = 0
    /\ pending = EmptyBag
    /\ inflight = NoCall
    /\ obs \in {[op |-> "error", stack |-> stack] : stack \in Stacks}

SpecStack == InitStack /\ [][NextStack]_vars

\* The manual interface next to the singleton: wrapped functions,
\* issueUpdate and reportError, with and without a global monitor.
NextManual ==
    \/ \E options \in ManualOptions : MonitorCall(options)
    \/ StopMonitoring
    \/ ManualStep
    \/ \E m \in MonitorIds, obj \in Objects, name \in ObjectNames :
          WrapObjectCall(m, obj, name)
    \/ \E descriptor \in Descriptors :
          MonitoredCall([constructor |-> "Cart"], "save", descriptor)
    \/ \E m \in MonitorIds, etype \in ErrorTypeArgs : ReportErrorCall(m, etype)
    \/ \E r \in BagToSet(pending), t \in Transport : ReportSettle(r, t)

\* The manual interface reads no global of the host but console.error and
\* the fetch that posts the report: it is followed in a Node.js host and in
\* a page whose window is also its global.
InitManual == Init /\ host \in {NodeHost, BundledHost}

SpecManual == InitManual /\ [][NextManual]_vars

\* Every way a report comes about: the interceptors of the global monitor
\* and the manual interface.
NextReporting ==
    \/ \E options \in OptionChoices : MonitorCall(options)
    \/ StopMonitoring
    \/ HostStep
    \/ ManualStep

SpecReporting == Init /\ [][NextReporting]_vars

Next == NextLifecycle \/ NextInstall \/ NextSingleton \/ NextMonitoring \/ NextManual \/ NextStack

Spec == Init /\ [][Next]_vars

(* ------------------------------- claims -------------------------------- *)

Count(seq, P(_)) == Len(SelectSeq(seq, P))
ReportsBy(reports, m) == SelectSeq(reports, LAMBDA e : e.m = m)
ClosuresIn(f) == Range(f.wraps)

\* C1: reportError never raises to its caller and its promise never
\* rejects, whatever the POST does (it throws, it answers non-2xx, it
\* succeeds); a non-2xx answer is logged and swallowed.
C1_ReportErrorNeverRejects ==
    /\ obs.op = "reportError" => ~obs.raised
    /\ obs.op = "reportSettled" =>
         /\ obs.promise = "resolved"
         /\ obs.transport # "ok" =>
              obs.log # <<>> /\ obs.log[1].what = "call"
                             /\ obs.log[1].args = <<FailLabel, ErrorValue>>
         /\ obs.transport = "ok" => obs.log = <<>>

C1_Witness ==
    /\ obs.op = "reportSettled"
    /\ obs.transport = "status500"
    /\ obs.promise = "resolved"
    /\ obs.log # <<>>

\* C2: round trip.  After start() followed by stop() on one monitor, every
\* global slot the monitor can patch is the value it held before start()
\* and every listener it registered has been unregistered, in every host
\* and under every configuration.
C2_RoundTrip ==
    [][ (/\ obs.op = "start" /\ ~obs.wasActive
         /\ obs'.op = "stop" /\ obs'.m = obs.m)
        => (globals' = obs.pre.globals /\ listeners' = obs.pre.listeners) ]_vars

\* The monitors with a hook installed: a listener registered with the host
\* or a wrapper standing in a global slot.
Hooked ==
    {m \in MonitorIds :
        \/ \E key \in ListenerKeys : \E c \in Range(listeners[key]) : c.m = m
        \/ \E c \in ClosuresIn(globals.console) \cup ClosuresIn(globals.wfetch)
                     \cup ClosuresIn(globals.gfetch) : c.m = m}
Active == {m \in MonitorIds : mons[m].isActive}

\* C3: through monitor() and stopMonitoring(), at most one monitor is
\* active, that is, has hooks installed, at any time; after
\* stopMonitoring() none is and getMonitor() returns null.
C3_AtMostOneActive ==
    /\ Cardinality(Active \cup Hooked) <= 1
    /\ obs.op = "stopMonitoring" => (Active \cup Hooked = {} /\ GetMonitor = 0)

\* C4: start() is idempotent.  start() on an active monitor changes no
\* global slot, registers no listener and leaves the registry as the first
\* start() filled it.
C4_StartIdempotent ==
    [][ (obs'.op = "start" /\ obs'.wasActive)
        => (globals' = globals /\ listeners' = listeners /\ mons' = mons) ]_vars

C4_Witness ==
    /\ obs.op = "start"
    /\ obs.wasActive
    /\ Has(mons[obs.m].originalHandlers, "console.error")
    /\ Top(globals.console) = Closure(obs.m, "console.error")

\* C5: stop() is idempotent.  stop() on an inactive monitor changes no
\* global slot, removes no listener and leaves the monitor as it was, also
\* when other code has changed a slot since the monitor was stopped.
C5_StopIdempotent ==
    [][ (obs'.op = "stop" /\ ~obs'.wasActive)
        => (globals' = globals /\ listeners' = listeners /\ mons' = mons) ]_vars

C5_Witness ==
    /\ obs.op = "stop"
    /\ ~obs.wasActive
    /\ obs.afterForeign
    /\ globals.console = Foreign

\* The hooks of monitor m a failure passes through: the listeners of an
\* emitted event, the wrappers in the function that was called.
HooksPassed(m) ==
    CASE obs.op = "emit" ->
           {c \in Range(listeners[obs.key]) : c.m = m}
      [] obs.op = "console.error" ->
           {c \in ClosuresIn(obs.fn) : c.m = m}
      [] obs.op = "fetch" ->
           {c \in ClosuresIn(obs.fn) : c.m = m}
      [] OTHER -> {}

\* Whether the failure is one the monitor is to report.
IsFailure ==
    CASE obs.op = "emit" -> TRUE
      [] obs.op = "console.error" ->
           Len(obs.args) > 0 /\ obs.args[1] = ErrorValue
      [] obs.op = "fetch" ->
           \/ obs.outcome.kind = "rejected"
           \/ \E m \in MonitorIds : HooksPassed(m) # {}
                                     /\ StatusMonitored(mons, [m |-> m], obs.outcome.status)
      [] OTHER -> FALSE

\* C6: a failure raised once at an interception point of the active
\* monitor produces exactly one report.
C6_ExactlyOneReport ==
    \A m \in MonitorIds :
        (IsFailure /\ m = globalMonitor /\ HooksPassed(m) # {})
        => Len(ReportsBy(obs.reports, m)) = 1

\* C7: monitoring observes a failure and never suppresses it: what the
\* application and the host see of it is what they see with no monitor
\* installed.
C7_NeverSuppresses ==
    /\ obs.op = "emit" => obs.defaultRuns = HostDefaultRuns(obs.key, <<>>)
    /\ obs.op = "fetch" => obs.got = obs.outcome
    /\ obs.op = "console.error" =>
         Count(obs.effects, LAMBDA e : e = CallEffect(obs.fn.base, obs.args)) = 1

\* The effects of a call of the patched console.error: the function that
\* was patched is called exactly once, with the arguments of the call, and
\* before any report.
CallsOriginalFirst(effects, f, args) ==
    /\ effects # <<>>
    /\ effects[1] = CallEffect(f.base, args)
    /\ \A i \in 2 .. Len(effects) : effects[i].what = "report"

\* C8: every call of the patched console.error calls the original exactly
\* once with the same arguments, before any report, reported or not.
C8_OriginalCalledFirst ==
    /\ (obs.op = "console.error" /\ IsWrapper(obs.fn))
       => CallsOriginalFirst(obs.effects, obs.fn, obs.args)
    /\ (obs.op = "reportSettled" /\ obs.log # <<>>)
       => CallsOriginalFirst(obs.log, globals.console, <<FailLabel, ErrorValue>>)

C8_Witness ==
    /\ obs.op = "console.error"
    /\ IsWrapper(obs.fn)
    /\ obs.args = <<"checkout failed", ErrorValue>>
    /\ Len(obs.effects) = 2
    /\ obs.effects[2].what = "report"

\* The calls the claim says are reported, and under which event.
Reportable(args) ==
    \/ Len(args) >= 1 /\ args[1] = ErrorValue
    \/ Len(args) >= 2 /\ args[1] \in StringValues /\ args[2] = ErrorValue
ReportedAs(args) == IF args[1] = ErrorValue THEN "console_error" ELSE args[1]

\* C9: a call of the patched console.error is reported exactly when its
\* first argument is an error (event console_error) or its first is a
\* string and its second an error (event that string); no other call is.
C9_ConsoleReportedIff ==
    (obs.op = "console.error" /\ IsWrapper(obs.fn)) =>
        /\ obs.reports # <<>> <=> Reportable(obs.args)
        /\ \A m \in MonitorIds :
             HooksPassed(m) # {} =>
               Len(ReportsBy(obs.reports, m)) = IF Reportable(obs.args) THEN 1 ELSE 0
        /\ \A i \in DOMAIN obs.reports :
             obs.reports[i].event = ReportedAs(obs.args)

C9_Witness ==
    /\ obs.op = "console.error"
    /\ IsWrapper(obs.fn)
    /\ obs.args = <<"checkout failed", ErrorValue>>
    /\ Len(obs.reports) = 1
    /\ obs.reports[1].event = "checkout failed"

\* C10: a call through a patched fetch that resolves with status s gets
\* exactly one report fetch_<s> when HTTP-status monitoring is on and s is
\* in the configured set, none otherwise, and resolves to the response the
\* original produced.
C10_FetchStatusReport ==
    (obs.op = "fetch" /\ obs.outcome.kind = "resolved") =>
        /\ obs.got = obs.outcome
        /\ \A m \in MonitorIds :
             HooksPassed(m) # {} =>
               /\ Len(ReportsBy(obs.reports, m))
                    = IF StatusMonitored(mons, [m |-> m], obs.outcome.status)
                      THEN 1 ELSE 0
               /\ \A i \in DOMAIN obs.reports :
                    obs.reports[i].event = FetchEvent(obs.outcome.status)

\* C11: a call through a patched fetch whose original rejects with reason
\* e gets exactly one report fetch_network_error and rejects with the
\* identical reason e, with HTTP-status monitoring on or off.
C11_FetchNetworkError ==
    (obs.op = "fetch" /\ obs.outcome.kind = "rejected") =>
        /\ obs.got = obs.outcome
        /\ \A m \in MonitorIds :
             HooksPassed(m) # {} =>
               /\ Len(ReportsBy(obs.reports, m)) = 1
               /\ \A i \in DOMAIN obs.reports :
                    obs.reports[i].event = "fetch_network_error"

\* The operations that issue reports, and the classification each
\* interception point is to give.
ReportingOps ==
    {"emit", "console.error", "fetch", "reportError", "reportSettled",
     "wrappedCall", "issueUpdate"}
ExpectedType(k) ==
    CASE k \in {"uncaughtException", "error"} -> "uncaught"
      [] k \in {"unhandledRejection", "unhandledrejection"} -> "promise"
      [] k \in {"console.error", "fetch", "global.fetch", "wrapFunction",
                "issueUpdate"} -> "manual"
      [] OTHER -> "none"

\* C12: every report's errorType is uncaught, promise or manual and is
\* fixed by where the report comes from: uncaught for uncaught exceptions
\* and window error events, promise for unhandled rejections, manual for
\* console.error, fetch, wrapped functions and issueUpdate, and for
\* reportError what the caller passed, manual when it passed nothing.
C12_ErrorTypeByOrigin ==
    obs.op \in ReportingOps =>
        \A i \in DOMAIN obs.reports :
            LET r == obs.reports[i]
            IN  /\ r.etype \in {"uncaught", "promise", "manual"}
                /\ r.by.k = "reportError" =>
                     r.etype = (IF obs.errorType = Omitted THEN "manual" ELSE obs.errorType)
                /\ r.by.k # "reportError" => r.etype = ExpectedType(r.by.k)

C12_Witness ==
    /\ obs.op = "emit"
    /\ obs.key = "error"
    /\ Len(obs.reports) = 1
    /\ obs.reports[1].etype = "uncaught"
    /\ \E r \in BagToSet(pending) : r.m = globalMonitor

\* The event a wrapped function is to report under: its label, else the
\* name of the function, else the given tag.
LabelOrName(wf, tag) ==
    IF wf.functionName # "" THEN wf.functionName
    ELSE IF wf.fn.name # "" THEN wf.fn.name
    ELSE tag

\* C13: a wrapped function whose fn throws e synchronously issues exactly
\* one report, classified manual, under the label, else the name of fn,
\* else anonymous_function, and throws the identical e to its caller.
C13_SyncThrow ==
    (obs.op = "wrappedCall" /\ obs.behaviour.kind = "throws") =>
        /\ obs.result.threw
        /\ obs.result.value = obs.behaviour.value
        /\ Len(obs.reports) = 1
        /\ obs.reports[1].m = obs.wf.monitor
        /\ obs.reports[1].etype = "manual"
        /\ obs.reports[1].event = LabelOrName(obs.wf, "anonymous_function")

C13_Witness ==
    /\ obs.op = "wrappedCall"
    /\ obs.behaviour.kind = "throws"
    /\ obs.wf.functionName = ""
    /\ obs.wf.fn.name = ""
    /\ obs.result.threw
    /\ Len(obs.reports) = 1
    /\ obs.reports[1].event = "anonymous_function"

\* C14: a wrapped function whose fn returns a promise-like (any value with
\* a then method) that rejects with reason r issues exactly one report and
\* returns a value that rejects with the identical r.
C14_PromiseRejection ==
    (/\ obs.op = "wrappedCall"
     /\ obs.behaviour.kind = "returns"
     /\ obs.behaviour.hasThen
     /\ obs.behaviour.settles = "rejected") =>
        /\ ~obs.result.threw
        /\ obs.result.settles = "rejected"
        /\ obs.result.with = SettledWith(obs.behaviour)
        /\ Len(obs.reports) = 1
        /\ obs.reports[1].m = obs.wf.monitor

\* C15: a wrapped function whose fn completes without failure returns
\* what fn returned and issues no report: a plain value is returned as it
\* is, a promise-like that resolves comes back resolving to the same
\* value.
C15_SuccessUntouched ==
    (/\ obs.op = "wrappedCall"
     /\ obs.behaviour.kind = "returns"
     /\ obs.behaviour.settles # "rejected") =>
        /\ ~obs.result.threw
        /\ obs.reports = <<>>
        /\ ~obs.behaviour.hasThen => obs.result.value = obs.behaviour.value
        /\ obs.behaviour.hasThen =>
             /\ obs.result.settles = "resolved"
             /\ obs.result.with = SettledWith(obs.behaviour)

\* C19: issueUpdate reports through the global monitor when there is one;
\* otherwise through a monitor made for that one report, which is neither
\* started nor retained: getMonitor() is still null afterwards, and no
\* global slot, listener or monitor is changed.
C19_IssueUpdateRouting ==
    [][ obs'.op = "issueUpdate" =>
          /\ Len(obs'.reports) = 1
          /\ obs'.m = GetMonitor
          /\ GetMonitor # 0 => obs'.monitor = mons[GetMonitor]
          /\ GetMonitor = 0 =>
               /\ ~obs'.monitor.isActive
               /\ obs'.monitor.originalHandlers = EmptyMap
               /\ globalMonitor' = 0
          /\ globalMonitor' = globalMonitor
          /\ globals' = globals
          /\ listeners' = listeners
          /\ mons' = mons ]_vars

C19_Witness ==
    /\ obs.op = "issueUpdate"
    /\ GetMonitor = 0
    /\ obs.m = 0
    /\ ~obs.monitor.isActive
    /\ \E m \in MonitorIds : mons[m].made
    /\ \E r \in BagToSet(pending) : r.m = 0

\* C20: the report issueUpdate(apiKey, event, err, data) sends is
\* authorized with the caller's apiKey and carries the caller's data as
\* its data, whether or not a global monitor is set.
C20_IssueUpdateKeyAndData ==
    obs.op = "issueUpdate" =>
        /\ obs.request.auth = obs.apiKey
        /\ obs.request.data = obs.data

\* The lines of a stack after the first that have one of the two frame
\* shapes, those among them of the application, and the file, line and
\* column a line shows.
Recognized(lines) == {i \in 2 .. Len(lines) : MatchNamed(lines[i]) \/ MatchBare(lines[i])}
FileOf(l) == IF MatchNamed(l) THEN l[4] ELSE l[2]
OwnFrames(lines) ==
    {i \in Recognized(lines) :
        ~Includes(FileOf(lines[i]), "node_modules") /\ ~Includes(FileOf(lines[i]), "internal/")}
Position(l) ==
    IF MatchNamed(l)
    THEN [file |-> l[4], line |-> l[6], col |-> l[8]]
    ELSE [file |-> l[2], line |-> l[4], col |-> l[6]]
Reported(frame) == [file |-> frame.file, line |-> frame.line, col |-> frame.col]
First(S) == CHOOSE i \in S : \A j \in S : i <= j

\* C16: the report shows the first recognized frame after the first line
\* whose file contains neither node_modules nor internal/; when every
\* recognized frame is internal or third-party it shows the first
\* recognized frame.
C16_FrameSelection ==
    obs.op = "extract" =>
        LET lines == StackLines(obs.stack)
        IN  /\ OwnFrames(lines) # {} =>
                 Reported(obs.frame) = Position(lines[First(OwnFrames(lines))])
            /\ (OwnFrames(lines) = {} /\ Recognized(lines) # {}) =>
                 Reported(obs.frame) = Position(lines[First(Recognized(lines))])

\* C17: when no line after the first has a frame shape (the stack is
\* absent or empty, or only its first line looks like a frame), file,
\* function, line and col are all unset.
C17_NoFrameAllUnset ==
    (obs.op = "extract" /\ Recognized(StackLines(obs.stack)) = {}) =>
        obs.frame = NoFrame

C17_Witness ==
    /\ obs.op = "extract"
    /\ Len(obs.stack) = 2
    /\ MatchNamed(obs.stack[1])
    /\ obs.stack[2] = NativeFrame
    /\ obs.frame = NoFrame

\* The interception points of start(), the option that gates each ("" for
\* none) and the facility each needs, seen in the state start() leaves, of
\* which obs.pre keeps the slots and listeners start() found.
Points == {"uncaught", "rejections", "console.error", "error", "fetch", "global.fetch"}
ToggleOf(point) ==
    CASE point = "rejections" -> "enablePromiseRejections"
      [] point = "console.error" -> "enableConsoleErrors"
      [] point \in {"fetch", "global.fetch"} -> "enableFetchMonitoring"
      [] OTHER -> ""
ToggleOn(point) == mons[obs.m].options[ToggleOf(point)]
Facility(point) ==
    CASE point = "uncaught" -> host.process
      [] point = "rejections" -> host.window \/ host.process
      [] point = "console.error" -> TRUE
      [] point = "error" -> host.window
      [] point = "fetch" -> host.window /\ Truthy(ReadWindowFetch(obs.pre.globals))
      [] point = "global.fetch" -> host.global /\ Truthy(ReadGlobalFetch(obs.pre.globals))
\* The closures start() added to a slot or to the listeners of an event.
Added(now, before) == SubSeq(now, Len(before) + 1, Len(now))
AddedTo(slot) == Range(Added(globals[slot].wraps, obs.pre.globals[slot].wraps))
AddedOn(key) == Range(Added(listeners[key], obs.pre.listeners[key]))
Installed(point) ==
    CASE point = "uncaught" ->
           Closure(obs.m, "uncaughtException") \in AddedOn("uncaughtException")
      [] point = "rejections" ->
           \/ Closure(obs.m, "unhandledrejection") \in AddedOn("unhandledrejection")
           \/ Closure(obs.m, "unhandledRejection") \in AddedOn("unhandledRejection")
      [] point = "console.error" ->
           Closure(obs.m, "console.error") \in AddedTo("console")
      [] point = "error" ->
           Closure(obs.m, "error") \in AddedOn("error")
      [] point = "fetch" ->
           Closure(obs.m, "fetch") \in AddedTo("wfetch")
      [] point = "global.fetch" ->
           Closure(obs.m, "global.fetch") \in AddedTo("wfetch") \cup AddedTo("gfetch")
\* What a disabled toggle leaves as start() found it.
Untouched(point) ==
    CASE point = "rejections" ->
           /\ listeners["unhandledrejection"] = obs.pre.listeners["unhandledrejection"]
           /\ listeners["unhandledRejection"] = obs.pre.listeners["unhandledRejection"]
      [] point = "console.error" -> globals.console = obs.pre.globals.console
      [] point \in {"fetch", "global.fetch"} ->
           globals.wfetch = obs.pre.globals.wfetch /\ globals.gfetch = obs.pre.globals.gfetch
      [] OTHER -> TRUE
Started == obs.op = "start" /\ ~obs.wasActive

MessageFor(reason) ==
    CASE reason.kind = "error" -> "card declined"
      [] reason.kind = "string" -> "no credits"
      [] reason.kind = "number" -> "402"
      [] reason.kind = "undefined" -> "undefined"

\* C21: while the global monitor is active with promise-rejection capture
\* enabled, an unhandled rejection with reason r gets exactly one report,
\* event unhandled_promise_rejection, errorType promise, whose error text
\* is the message of r when r is an error and the string form of r
\* otherwise, in every host that has a rejection facility.
C21_RejectionReported ==
    (/\ obs.op = "emit"
     /\ obs.key \in {"unhandledRejection", "unhandledrejection"}
     /\ globalMonitor # 0
     /\ mons[globalMonitor].isActive
     /\ mons[globalMonitor].options.enablePromiseRejections) =>
        /\ Len(obs.reports) = 1
        /\ obs.reports[1].m = globalMonitor
        /\ obs.reports[1].event = "unhandled_promise_rejection"
        /\ obs.reports[1].etype = "promise"
        /\ obs.errors[1] = MessageFor(obs.payload)

\* A start() of a monitor that has been started and stopped before, and
\* what such a start() is to leave: every enabled hook whose facility
\* exists installed anew, and in the registry, for each patched slot, the
\* value start() found there.
Restarted == Started /\ obs.again
InstalledAfresh ==
    \A point \in Points :
        Installed(point) <=> ((ToggleOf(point) # "" => ToggleOn(point)) /\ Facility(point))
OriginalsAsFound ==
    LET reg == mons[obs.m].originalHandlers
    IN  /\ Installed("console.error") =>
             Has(reg, "console.error") /\ reg["console.error"] = obs.pre.globals.console
        /\ Installed("fetch") =>
             Has(reg, "fetch") /\ reg["fetch"] = ReadWindowFetch(obs.pre.globals)
        /\ Installed("global.fetch") =>
             Has(reg, "global.fetch")
             /\ reg["global.fetch"] = ReadGlobalFetch(obs.pre.globals)

\* C22: once stop() has returned the registry is empty; a later start() of
\* the same monitor installs every enabled hook again and records as
\* originals the values the slots hold at that start(); the stop() that
\* follows restores exactly those values.
C22_RestartFresh ==
    [][ /\ obs'.op = "stop" => mons'[obs'.m].originalHandlers = EmptyMap
        /\ Restarted' => (InstalledAfresh' /\ OriginalsAsFound')
        /\ (Restarted /\ obs'.op = "stop" /\ obs'.m = obs.m) =>
              (globals' = obs.pre.globals /\ listeners' = obs.pre.listeners) ]_vars

\* The hooks of monitor m by the key each has in the registry, whether the
\* configuration of m enables it, whether its facility exists, and whether
\* it stands installed.
HookKeys ==
    {"uncaughtException", "unhandledRejection", "unhandledrejection",
     "console.error", "error", "fetch", "global.fetch"}
Enabled(m, k) ==
    CASE k \in {"unhandledRejection", "unhandledrejection"} ->
           mons[m].options.enablePromiseRejections
      [] k = "console.error" -> mons[m].options.enableConsoleErrors
      [] k \in {"fetch", "global.fetch"} -> mons[m].options.enableFetchMonitoring
      [] OTHER -> TRUE
Available(k) ==
    CASE k = "uncaughtException" -> host.process
      [] k = "unhandledRejection" -> host.process /\ ~host.window
      [] k = "unhandledrejection" -> host.window
      [] k = "console.error" -> TRUE
      [] k = "error" -> host.window
      [] k = "fetch" -> host.window /\ Truthy(ReadWindowFetch(globals))
      [] k = "global.fetch" -> host.global /\ Truthy(ReadGlobalFetch(globals))
Standing(m, k) ==
    CASE k \in ListenerKeys -> Closure(m, k) \in Range(listeners[k])
      [] k = "console.error" -> Closure(m, k) \in ClosuresIn(globals.console)
      [] k = "fetch" -> Closure(m, k) \in ClosuresIn(globals.wfetch)
      [] k = "global.fetch" ->
           Closure(m, k) \in ClosuresIn(globals.wfetch) \cup ClosuresIn(globals.gfetch)

\* C23: installation and removal appear atomic.  Between operations an
\* inactive monitor has an empty registry and none of its hooks installed,
\* and an active monitor has every hook that is enabled and available
\* installed with its entry in the registry, also when installing or
\* restoring a hook fails.
C23_AtomicInstall ==
    \A m \in MonitorIds :
        /\ ~mons[m].isActive =>
              /\ mons[m].originalHandlers = EmptyMap
              /\ \A k \in HookKeys : ~Standing(m, k)
        /\ mons[m].isActive =>
              \A k \in HookKeys :
                  (Enabled(m, k) /\ Available(k)) =>
                      (Standing(m, k) /\ Has(mons[m].originalHandlers, k))

\* The label the methods of a wrapped object are to report under.
MethodLabel(objectName, prop) ==
    (IF objectName # "" THEN objectName ELSE "Object") \o "." \o prop

InterceptorOps == {"emit", "console.error", "fetch", "wrappedCall"}
InFlight(m) ==
    LET own == {r \in BagToSet(pending) : r.m = m}
    IN  BagCardinality([r \in own |-> pending[r]])

\* C25: reporting is fire-and-forget.  When an interceptor hands the
\* failure back to its caller (it returns, rethrows or rejects again), the
\* POST of every report it issued is still in flight: none has settled in
\* between, so the caller never waits for the transport.
C25_FireAndForget ==
    [][ obs'.op \in InterceptorOps =>
          /\ BagCardinality(pending') = BagCardinality(pending) + Len(obs'.reports)
          /\ \A m \in MonitorIds \cup {0} :
                InFlight(m)' = InFlight(m) + Len(ReportsBy(obs'.reports, m)) ]_vars

C25_Witness ==
    /\ obs.op = "fetch"
    /\ obs.outcome.kind = "rejected"
    /\ obs.got = obs.outcome
    /\ Len(obs.reports) = 1
    /\ InFlight(obs.reports[1].m) = 1

\* C26: the monitored decorator used while no global monitor is set logs
\* a warning and returns the descriptor with its method unwrapped; it
\* throws nothing, issues no report and changes nothing else.
C26_MonitoredUninitialized ==
    [][ (obs'.op = "monitored" /\ GetMonitor = 0) =>
          /\ obs'.warned = <<NotInitialized>>
          /\ obs'.returned = obs'.descriptor
          /\ obs'.returned.value.kind = "function"
          /\ ~obs'.threw
          /\ obs'.reports = <<>>
          /\ pending' = pending
          /\ globalMonitor' = 0
          /\ mons' = mons /\ globals' = globals /\ listeners' = listeners ]_vars

C26_Witness ==
    /\ obs.op = "monitored"
    /\ obs.globalMonitor = 0
    /\ GetMonitor = 0
    /\ obs.warned # <<>>
    /\ obs.returned = [value |-> Func("save")]
    /\ \E m \in MonitorIds : mons[m].made

\* C27: a reporting failure never generates a further report.  The log
\* reportError writes when its POST fails or is answered non-2xx is not
\* captured by the console.error hook, so every POST in flight belongs to
\* an intercepted error itself and none to the failure of another report.
C27_NoReportOfReportFailure ==
    /\ obs.op = "reportSettled" => obs.reports = <<>>
    /\ \A r \in BagToSet(pending) : r.depth = 0

\* C28: function, file, line and col of a report come from one and the
\* same stack line: the function name is unset, or it is the name shown by
\* the very line that gave file, line and col.
C28_FrameFromOneLine ==
    obs.op = "extract" =>
        LET lines == StackLines(obs.stack)
        IN  \/ obs.frame.function = Unset
            \/ \E i \in Recognized(lines) :
                  /\ MatchNamed(lines[i])
                  /\ lines[i][2] = obs.frame.function
                  /\ Position(lines[i]) = Reported(obs.frame)

\* The three slots as the host shipped them, which is how the first
\* start() finds them when no other code assigns them.
SlotsAsShipped ==
    /\ globals.console = NativeConsole
    /\ globals.wfetch = (IF host.winFetch THEN NativeWindowFetch ELSE Undefined)
    /\ globals.gfetch = (IF host.globFetch /\ ~host.alias THEN NativeGlobalFetch ELSE Undefined)

\* C29: for two monitors constructed directly and any interleaving of
\* their start() and stop() calls, once both are inactive console.error
\* and both fetch slots are the values they held before the first start()
\* and no wrapper of either monitor remains installed.
C29_TwoInstancesRestore ==
    (Cardinality(Made) >= 2 /\ Active = {} /\ ~globals.frozen) =>
        (SlotsAsShipped /\ Hooked = {})

\* C30: whenever getMonitor() returns a monitor, that monitor is active
\* with its hooks installed, and every active monitor is the one
\* getMonitor() returns, after any sequence of monitor(), stopMonitoring()
\* and start() / stop() on instances monitor() or getMonitor() returned.
C30_GetMonitorIsTheActiveOne ==
    /\ GetMonitor # 0 =>
          /\ mons[GetMonitor].isActive
          /\ \A k \in HookKeys :
                (Enabled(GetMonitor, k) /\ Available(k)) => Standing(GetMonitor, k)
    /\ \A m \in MonitorIds : mons[m].isActive => m = GetMonitor


(* --------------------------- C31: after stop --------------------------- *)

\* A monitor whose stop() has returned.  Under SpecReporting a monitor is
\* made and started by monitor() alone, so one that is inactive was stopped
\* by stopMonitoring() or by the monitor() call that replaced it.
Stopped(m) == mons[m].made /\ ~mons[m].isActive
Reporters(reports) == {reports[i].m : i \in DOMAIN reports}

\* C31: once stop() of a monitor has returned, no interceptor and no
\* wrapper this monitor created issues a report: neither a patched fetch
\* call that was in flight when stop() ran, nor a captured reference to a
\* patched function, nor a function wrapped by wrapFunction or wrapObject.
C31_SilentAfterStop ==
    obs.op \in InterceptorOps =>
        \A m \in Reporters(obs.reports) : ~Stopped(m)


(* ------------------------ C32: the aliased host ------------------------ *)

\* stopMonitoring() leaves the page-level fetch slot holding the function
\* start() of monitor m found there (the one line 160 saved).
FetchSlotRestored(m) ==
    (/\ obs'.op = "stopMonitoring" /\ obs'.m = m
     /\ mons[m].isActive /\ Has(mons[m].originalHandlers, "fetch"))
    => ReadWindowFetch(globals') = Original(World, m, "fetch")

\* A failing fetch call through the hooks of the active monitor m has
\* settled with exactly one report of m.
OneFetchReport(m) ==
    (/\ obs.op = "fetch" /\ IsFailure
     /\ mons[m].isActive /\ HooksPassed(m) # {})
    => Len(ReportsBy(obs.reports, m)) = 1

\* C32: in a host where window and global are one object, so that the
\* page-level fetch and the global fetch are the same slot, start()
\* followed by stop() restores the slot to its pre-start function, and
\* while the monitor is active one failing fetch call (a monitored status
\* or a network failure) produces exactly one report.
C32_AliasedHost ==
    [][ host.alias =>
          \A m \in MonitorIds : FetchSlotRestored(m) /\ OneFetchReport(m)' ]_vars

============================================================================
